---------------------------- MODULE Spec2Model ----------------------------
(***************************************************************************)
(* AIMSClientInstance (src/src/aims-client.ts): a facade that turns each   *)
(* named operation into one request handed to the AlApiClient collaborator *)
(* (the Transport) and reshapes the response.  The only state of the       *)
(* instance that changes is the `environment` field.                       *)
(*                                                                         *)
(* An operation is an async method: the descriptor is built and handed to  *)
(* the client synchronously at invocation (one action per operation), the  *)
(* method then awaits; `Resume` is the continuation after the await.       *)
(***************************************************************************)
EXTENDS Integers, Sequences, FiniteSets, TLC

VARIABLES
    environment,  \* this.environment
    inflight,     \* call id -> operation awaiting the client's response
    delivered,    \* what the last step handed back to its caller (NoResult if nothing)
    handed,       \* history: environment tags of the requests the client received
    lastSetter,   \* history: the environment setter called most recently
    chosen        \* history: per caller, the environment that caller selected last

vars == <<environment, inflight, delivered, handed, lastSetter, chosen>>

----------------------------------------------------------------------------
(* Bounds and inputs *)

MaxCalls == 2       \* operations invoked in one run

Callers == {"A", "B"}
AccountIds == {"", "1000"}
UserIds == {"u-1"}
RoleIds == {"r-1"}
AccessKeyIds == {"k1"}
QueryParams == {"undefined", "active=true"}
MfaCodes == {"undefined", "123456"}
TtlArgs == {<<>>, <<60000>>, <<5000>>}   \* <<>>: the argument is omitted
Errors == {"NetworkError"}

serviceName == "aims"
DefaultTtl == 60000
ReadRetryCount == 5

NoResult == [op |-> "none"]

BoolStr(b) == IF b THEN "true" ELSE "false"

----------------------------------------------------------------------------
(* The step every operation shares: the request `req` goes to the client  *)
(* method `method` and the operation suspends on the await.  Operations   *)
(* are issued one at a time (they share nothing but `environment`, which  *)
(* they only read); the environment setters of any caller interleave      *)
(* freely, also while an operation awaits its response.                   *)

Call(c, op, args, method, req) ==
    /\ Len(handed) < MaxCalls
    /\ DOMAIN inflight = {}
    /\ LET id == Len(handed) + 1
           rec == [op |-> op, caller |-> c, args |-> args,
                   sent |-> <<[method |-> method, request |-> req]>>,
                   selected |-> lastSetter, intended |-> chosen[c]]
       IN  inflight' = [i \in DOMAIN inflight \cup {id} |->
                            IF i = id THEN rec ELSE inflight[i]]
    /\ handed' = Append(handed, [environment |-> req.environment,
                                 selected |-> lastSetter])
    /\ delivered' = NoResult
    /\ UNCHANGED <<environment, lastSetter, chosen>>

----------------------------------------------------------------------------
(* Users *)

createUser(c, accountId, name, email, mobilePhone) ==
    Call(c, "createUser", [accountId |-> accountId], "post",
         [service_name |-> serviceName, environment |-> environment,
          account_id |-> accountId, path |-> "/users",
          data |-> "{\"name\": \"" \o name \o "\", \"email\": \"" \o email
                   \o "\", \"mobile_phone\": \"" \o mobilePhone \o "\"}"])

\* deleteUser asking the client for automatic retries
deleteUser_retried(c, accountId, userId) ==
    Call(c, "deleteUser", [accountId |-> accountId], "delete",
         [service_name |-> serviceName, environment |-> environment,
          account_id |-> accountId, path |-> "/users/" \o userId,
          retry_count |-> ReadRetryCount])

deleteUser(c, accountId, userId) ==
    Call(c, "deleteUser", [accountId |-> accountId], "delete",
         [service_name |-> serviceName, environment |-> environment,
          account_id |-> accountId, path |-> "/users/" \o userId])

getUserDetailsById(c, accountId, userId) ==
    Call(c, "getUserDetailsById", [accountId |-> accountId], "fetch",
         [service_name |-> serviceName, environment |-> environment,
          account_id |-> accountId, path |-> "/users/" \o userId,
          retry_count |-> ReadRetryCount])

getUserPermissions(c, accountId, userId) ==
    Call(c, "getUserPermissions", [accountId |-> accountId], "fetch",
         [service_name |-> serviceName, environment |-> environment,
          account_id |-> accountId,
          path |-> "/users/" \o userId \o "/permissions"])

getUserDetails(c, accountId, userId, queryParams) ==
    Call(c, "getUserDetails", [accountId |-> accountId], "fetch",
         [service_name |-> serviceName, environment |-> environment,
          account_id |-> accountId, path |-> "/users/" \o userId,
          params |-> queryParams])

getUsers(c, accountId, queryParams) ==
    Call(c, "getUsers", [accountId |-> accountId], "fetch",
         [service_name |-> serviceName, environment |-> environment,
          account_id |-> accountId, path |-> "/users",
          params |-> queryParams])

----------------------------------------------------------------------------
(* Accounts *)

\* getAccountDetails without its retry_count
getAccountDetails_noRetry(c, accountId) ==
    Call(c, "getAccountDetails", [accountId |-> accountId], "fetch",
         [service_name |-> serviceName, environment |-> environment,
          account_id |-> accountId, path |-> "/account"])

getAccountDetails(c, accountId) ==
    Call(c, "getAccountDetails", [accountId |-> accountId], "fetch",
         [service_name |-> serviceName, environment |-> environment,
          account_id |-> accountId, path |-> "/account",
          retry_count |-> ReadRetryCount])

getManagedAccounts(c, accountId, queryParams) ==
    Call(c, "getManagedAccounts", [accountId |-> accountId], "fetch",
         [service_name |-> serviceName, environment |-> environment,
          account_id |-> accountId, path |-> "/accounts/managed",
          params |-> queryParams, retry_count |-> ReadRetryCount])

getManagedAccountIds(c, accountId, queryParams) ==
    Call(c, "getManagedAccountIds", [accountId |-> accountId], "fetch",
         [service_name |-> serviceName, environment |-> environment,
          account_id |-> accountId, path |-> "/account_ids/managed",
          params |-> queryParams, retry_count |-> ReadRetryCount])

requireMFA(c, accountId, mfaRequired) ==
    Call(c, "requireMFA", [accountId |-> accountId], "post",
         [service_name |-> serviceName, environment |-> environment,
          account_id |-> accountId, path |-> "/account",
          data |-> "{mfa_required: " \o BoolStr(mfaRequired) \o "}"])

----------------------------------------------------------------------------
(* Authentication and password flows *)

authenticate(c, user, pass, mfa) ==
    Call(c, "authenticate", [mfa |-> mfa], "authenticate",
         [user |-> user, pass |-> pass, mfa |-> mfa,
          environment |-> environment])

authenticateWithMFASessionToken(c, token, mfa) ==
    Call(c, "authenticateWithMFASessionToken", [token |-> token],
         "authenticateWithMFASessionToken",
         [token |-> token, mfa |-> mfa, environment |-> environment])

changePassword(c, email, password, newPassword) ==
    Call(c, "changePassword", [email |-> email], "post",
         [service_name |-> serviceName, environment |-> environment,
          path |-> "/change_password",
          data |-> "{email: " \o email \o ", current_password: " \o password
                   \o ", new_password: " \o newPassword \o "}"])

tokenInfo(c) ==
    Call(c, "tokenInfo", [none |-> "none"], "fetch",
         [service_name |-> serviceName, environment |-> environment,
          path |-> "/token_info"])

initiateReset(c, email, returnTo) ==
    Call(c, "initiateReset", [email |-> email], "post",
         [service_name |-> serviceName, environment |-> environment,
          path |-> "/reset_password",
          data |-> "{email: " \o email \o ", return_to: " \o returnTo \o "}"])

resetWithToken(c, token, password) ==
    Call(c, "resetWithToken", [token |-> token], "set",
         [service_name |-> serviceName, environment |-> environment,
          path |-> "/reset_password/" \o token,
          data |-> "{password: " \o password \o "}"])

enrollMFA(c, uri, codes) ==
    Call(c, "enrollMFA", [uri |-> uri], "post",
         [service_name |-> serviceName, environment |-> environment,
          path |-> "/user/mfa/enroll",
          data |-> "{mfa_uri: " \o uri \o ", mfa_codes: " \o codes \o "}"])

deleteMFA(c, email) ==
    Call(c, "deleteMFA", [email |-> email], "delete",
         [service_name |-> serviceName, environment |-> environment,
          path |-> "/user/mfa/" \o email])

----------------------------------------------------------------------------
(* Roles *)

createRole(c, accountId, name, permissions) ==
    Call(c, "createRole", [accountId |-> accountId], "post",
         [service_name |-> serviceName, environment |-> environment,
          account_id |-> accountId, path |-> "/roles",
          data |-> "{name: " \o name \o ", permissions: " \o permissions \o "}"])

\* deleteRole dropping the account_id of its request
deleteRole_unscoped(c, accountId, roleId) ==
    Call(c, "deleteRole", [accountId |-> accountId], "delete",
         [service_name |-> serviceName, environment |-> environment,
          path |-> "/roles/" \o roleId])

deleteRole(c, accountId, roleId) ==
    Call(c, "deleteRole", [accountId |-> accountId], "delete",
         [service_name |-> serviceName, environment |-> environment,
          account_id |-> accountId, path |-> "/roles/" \o roleId])

getGlobalRole(c, roleId) ==
    Call(c, "getGlobalRole", [roleId |-> roleId], "fetch",
         [service_name |-> serviceName, environment |-> environment,
          path |-> "/roles/" \o roleId])

getAccountRole(c, accountId, roleId) ==
    Call(c, "getAccountRole", [accountId |-> accountId], "fetch",
         [service_name |-> serviceName, environment |-> environment,
          account_id |-> accountId, path |-> "/roles/" \o roleId])

getGlobalRoles(c) ==
    Call(c, "getGlobalRoles", [none |-> "none"], "fetch",
         [service_name |-> serviceName, environment |-> environment,
          path |-> "/roles"])

getAccountRoles(c, accountId) ==
    Call(c, "getAccountRoles", [accountId |-> accountId], "fetch",
         [service_name |-> serviceName, environment |-> environment,
          account_id |-> accountId, path |-> "/roles"])

updateRole(c, accountId, name, permissions) ==
    Call(c, "updateRole", [accountId |-> accountId], "post",
         [service_name |-> serviceName, environment |-> environment,
          account_id |-> accountId, path |-> "/roles",
          data |-> "{name: " \o name \o ", permissions: " \o permissions \o "}"])

updateRoleName(c, accountId, name) ==
    Call(c, "updateRoleName", [accountId |-> accountId], "post",
         [service_name |-> serviceName, environment |-> environment,
          account_id |-> accountId, path |-> "/roles",
          data |-> "{name: " \o name \o "}"])

updateRolePermissions(c, accountId, permissions) ==
    Call(c, "updateRolePermissions", [accountId |-> accountId], "post",
         [service_name |-> serviceName, environment |-> environment,
          account_id |-> accountId, path |-> "/roles",
          data |-> "{permissions: " \o permissions \o "}"])

----------------------------------------------------------------------------
(* Access keys *)

\* createAccessKey marking its response cacheable
createAccessKey_cached(c, accountId, userId, label) ==
    Call(c, "createAccessKey", [accountId |-> accountId], "post",
         [service_name |-> serviceName, environment |-> environment,
          account_id |-> accountId, ttl |-> DefaultTtl,
          path |-> "/users/" \o userId \o "/access_keys",
          data |-> "{\"label\": \"" \o label \o "\"}"])

createAccessKey(c, accountId, userId, label) ==
    Call(c, "createAccessKey", [accountId |-> accountId], "post",
         [service_name |-> serviceName, environment |-> environment,
          account_id |-> accountId,
          path |-> "/users/" \o userId \o "/access_keys",
          data |-> "{\"label\": \"" \o label \o "\"}"])

updateAccessKey(c, accessKeyId, label) ==
    Call(c, "updateAccessKey", [accessKeyId |-> accessKeyId], "post",
         [service_name |-> serviceName, environment |-> environment,
          path |-> "/access_keys/" \o accessKeyId,
          data |-> "{\"label\": \"" \o label \o "\"}"])

getAccessKey(c, accessKeyId) ==
    Call(c, "getAccessKey", [accessKeyId |-> accessKeyId], "fetch",
         [service_name |-> serviceName, environment |-> environment,
          path |-> "/access_keys/" \o accessKeyId])

\* `ttl: number = 60000`: the default applies when the argument is omitted
getAccessKeys(c, accountId, userId, ttlArg) ==
    Call(c, "getAccessKeys", [accountId |-> accountId, ttlArg |-> ttlArg], "fetch",
         [service_name |-> serviceName, environment |-> environment,
          account_id |-> accountId,
          ttl |-> IF ttlArg = <<>> THEN DefaultTtl ELSE ttlArg[1],
          path |-> "/users/" \o userId \o "/access_keys?out=full"])

deleteAccessKey(c, accountId, userId, accessKeyId) ==
    Call(c, "deleteAccessKey", [accountId |-> accountId], "delete",
         [service_name |-> serviceName, environment |-> environment,
          account_id |-> accountId,
          path |-> "/users/" \o userId \o "/access_keys/" \o accessKeyId])

----------------------------------------------------------------------------
(* Environment setters *)

\* a setter that leaves the field as it was
setProductionEnv_stale(c) ==
    /\ environment' = environment
    /\ lastSetter' = "setProductionEnv"
    /\ chosen' = [chosen EXCEPT ![c] = "production"]
    /\ delivered' = NoResult
    /\ UNCHANGED <<inflight, handed>>

setProductionEnv(c) ==
    /\ environment' = "production"
    /\ lastSetter' = "setProductionEnv"
    /\ chosen' = [chosen EXCEPT ![c] = "production"]
    /\ delivered' = NoResult
    /\ UNCHANGED <<inflight, handed>>

\* a setter whose write reaches the requests already handed to the client
\* (as it would if a request kept a reference to the instance)
setIntegrationEnv_retag(c) ==
    /\ environment' = "integration"
    /\ lastSetter' = "setIntegrationEnv"
    /\ chosen' = [chosen EXCEPT ![c] = "integration"]
    /\ delivered' = NoResult
    /\ inflight' = [i \in DOMAIN inflight |->
          [inflight[i] EXCEPT !.sent = [k \in DOMAIN @ |->
              [@[k] EXCEPT !.request.environment = "integration"]]]]
    /\ UNCHANGED handed

setIntegrationEnv(c) ==
    /\ environment' = "integration"
    /\ lastSetter' = "setIntegrationEnv"
    /\ chosen' = [chosen EXCEPT ![c] = "integration"]
    /\ delivered' = NoResult
    /\ UNCHANGED <<inflight, handed>>

----------------------------------------------------------------------------
(* The continuation after the await: the value the operation returns.      *)

\* `x.field` on the response object: the field's value, undefined if absent
Field(body, f) ==
    IF f \in DOMAIN body THEN [kind |-> "return", value |-> body[f]]
    ELSE [kind |-> "undefined"]

\* `return x` / `return x as T`: the response object itself
Whole(body) == [kind |-> "return", value |-> body]

getManagedAccounts_return(body) == Field(body, "accounts")
getManagedAccountIds_return(body) == Field(body, "account_ids")
getGlobalRoles_return(body) == Field(body, "roles")
getAccountRoles_return(body) == Field(body, "roles")
getUsers_return(body) == Field(body, "users")
getAccessKeys_return(body) == Field(body, "access_keys")

Return(op, body) ==
    CASE op = "getManagedAccounts" -> getManagedAccounts_return(body)
      [] op = "getManagedAccountIds" -> getManagedAccountIds_return(body)
      [] op = "getGlobalRoles" -> getGlobalRoles_return(body)
      [] op = "getAccountRoles" -> getAccountRoles_return(body)
      [] op = "getUsers" -> getUsers_return(body)
      [] op = "getAccessKeys" -> getAccessKeys_return(body)
      [] OTHER -> Whole(body)

\* The envelope field a list operation reads
EnvelopeField(op) ==
    CASE op = "getManagedAccounts" -> "accounts"
      [] op = "getManagedAccountIds" -> "account_ids"
      [] op = "getGlobalRoles" -> "roles"
      [] op = "getAccountRoles" -> "roles"
      [] op = "getUsers" -> "users"
      [] op = "getAccessKeys" -> "access_keys"
      [] OTHER -> "none"

ListOps == {"getManagedAccounts", "getManagedAccountIds", "getGlobalRoles",
            "getAccountRoles", "getUsers", "getAccessKeys"}

\* Successful response objects the client may resolve with
Bodies(op) ==
    IF op \in ListOps
    THEN {[f \in {EnvelopeField(op)} |-> <<>>],
          [f \in {EnvelopeField(op)} |-> <<"e1">>],
          [items |-> <<"e1">>]}
    ELSE {[id |-> "e1"]}

Responses(op) ==
    {[ok |-> TRUE, body |-> b] : b \in Bodies(op)}
        \cup {[ok |-> FALSE, error |-> e] : e \in Errors}

\* A rejected await throws out of the async method: no catch, no second request
Resume(id, resp) ==
    /\ id \in DOMAIN inflight
    /\ LET call == inflight[id] IN
       delivered' = [op |-> call.op, response |-> resp,
                     attempts |-> Len(call.sent),
                     outcome |-> IF resp.ok THEN Return(call.op, resp.body)
                                 ELSE [kind |-> "throw", error |-> resp.error]]
    /\ inflight' = [i \in DOMAIN inflight \ {id} |-> inflight[i]]
    /\ UNCHANGED <<environment, handed, lastSetter, chosen>>

----------------------------------------------------------------------------

Init ==
    /\ environment = "production"
    /\ inflight = <<>>
    /\ delivered = NoResult
    /\ handed = <<>>
    /\ lastSetter = "none"
    /\ chosen = [c \in Callers |-> "none"]

Next ==
    \/ \E c \in Callers, a \in AccountIds :
          createUser(c, a, "Bob Dobalina", "bob@example.com", "123-555-0123")
    \/ \E c \in Callers, a \in AccountIds, u \in UserIds : deleteUser(c, a, u)
    \/ \E c \in Callers, a \in AccountIds, u \in UserIds : getUserDetailsById(c, a, u)
    \/ \E c \in Callers, a \in AccountIds, u \in UserIds : getUserPermissions(c, a, u)
    \/ \E c \in Callers, a \in AccountIds, u \in UserIds, q \in QueryParams :
          getUserDetails(c, a, u, q)
    \/ \E c \in Callers, a \in AccountIds, q \in QueryParams : getUsers(c, a, q)
    \/ \E c \in Callers, a \in AccountIds : getAccountDetails(c, a)
    \/ \E c \in Callers, a \in AccountIds, q \in QueryParams : getManagedAccounts(c, a, q)
    \/ \E c \in Callers, a \in AccountIds, q \in QueryParams : getManagedAccountIds(c, a, q)
    \/ \E c \in Callers, a \in AccountIds, b \in BOOLEAN : requireMFA(c, a, b)
    \/ \E c \in Callers, m \in MfaCodes : authenticate(c, "bob@example.com", "hunter2", m)
    \/ \E c \in Callers : authenticateWithMFASessionToken(c, "x-1", "123456")
    \/ \E c \in Callers : changePassword(c, "bob@example.com", "hunter2", "hunter3")
    \/ \E c \in Callers : tokenInfo(c)
    \/ \E c \in Callers : initiateReset(c, "bob@example.com", "https://console")
    \/ \E c \in Callers : resetWithToken(c, "t-1", "hunter2")
    \/ \E c \in Callers : enrollMFA(c, "otpauth://totp", "123456,456789")
    \/ \E c \in Callers : deleteMFA(c, "bob@example.com")
    \/ \E c \in Callers, a \in AccountIds : createRole(c, a, "Power User", "perms")
    \/ \E c \in Callers, a \in AccountIds, r \in RoleIds : deleteRole(c, a, r)
    \/ \E c \in Callers, r \in RoleIds : getGlobalRole(c, r)
    \/ \E c \in Callers, a \in AccountIds, r \in RoleIds : getAccountRole(c, a, r)
    \/ \E c \in Callers : getGlobalRoles(c)
    \/ \E c \in Callers, a \in AccountIds : getAccountRoles(c, a)
    \/ \E c \in Callers, a \in AccountIds : updateRole(c, a, "Power User", "perms")
    \/ \E c \in Callers, a \in AccountIds : updateRoleName(c, a, "Power User")
    \/ \E c \in Callers, a \in AccountIds : updateRolePermissions(c, a, "perms")
    \/ \E c \in Callers, a \in AccountIds, u \in UserIds : createAccessKey(c, a, u, "api")
    \/ \E c \in Callers, k \in AccessKeyIds : updateAccessKey(c, k, "api")
    \/ \E c \in Callers, k \in AccessKeyIds : getAccessKey(c, k)
    \/ \E c \in Callers, a \in AccountIds, u \in UserIds, t \in TtlArgs :
          getAccessKeys(c, a, u, t)
    \/ \E c \in Callers, a \in AccountIds, u \in UserIds, k \in AccessKeyIds :
          deleteAccessKey(c, a, u, k)
    \/ \E c \in Callers : setProductionEnv(c)
    \/ \E c \in Callers : setIntegrationEnv(c)
    \/ \E id \in DOMAIN inflight : \E resp \in Responses(inflight[id].op) :
          Resume(id, resp)

Spec == Init /\ [][Next]_vars

TypeOK ==
    /\ environment \in {"production", "integration"}
    /\ Len(handed) <= MaxCalls
    /\ Cardinality(DOMAIN inflight) <= 1

----------------------------------------------------------------------------
(* Reading the requests *)

Requests(call) == {call.sent[k] : k \in DOMAIN call.sent}

RetryBudget(req) == IF "retry_count" \in DOMAIN req THEN req.retry_count ELSE 0

EnvSelectedBy(setter) ==
    CASE setter = "setIntegrationEnv" -> "integration"
      [] setter = "setProductionEnv" -> "production"
      [] OTHER -> "production"

RetriedReads == {"getAccountDetails", "getManagedAccounts",
                 "getManagedAccountIds", "getUserDetailsById"}

MutatingOps == {"createUser", "createRole", "createAccessKey", "requireMFA",
                "changePassword", "initiateReset", "resetWithToken",
                "updateRole", "updateRoleName", "updateRolePermissions",
                "updateAccessKey", "enrollMFA", "deleteUser", "deleteRole",
                "deleteMFA", "deleteAccessKey"}

DocumentedGlobalOps == {"getGlobalRole", "getGlobalRoles", "tokenInfo",
                        "authenticate", "changePassword", "initiateReset",
                        "resetWithToken"}

----------------------------------------------------------------------------
\* C1: every request the client receives carries the environment selected by
\* the most recent setter call before the operation (production if no setter
\* was ever called).
C1_EnvOfLastSetter ==
    /\ \A i \in DOMAIN handed :
          handed[i].environment = EnvSelectedBy(handed[i].selected)
    /\ \A id \in DOMAIN inflight : \A t \in Requests(inflight[id]) :
          t.request.environment = EnvSelectedBy(inflight[id].selected)

\* integration selected, a request issued and answered, production selected,
\* a second request issued: tagged integration, then production
C1_Witness ==
    /\ Len(handed) = 2
    /\ handed[1] = [environment |-> "integration", selected |-> "setIntegrationEnv"]
    /\ handed[2] = [environment |-> "production", selected |-> "setProductionEnv"]
    /\ DOMAIN inflight = {2}

----------------------------------------------------------------------------
----------------------------------------------------------------------------
\* C3: a mutating operation hands the client exactly one request, with no
\* retry budget, through post/set/delete; when the client fails, the same
\* error comes out of the operation and nothing of the call stays in flight.
C3_MutationsNotRetried ==
    /\ \A id \in DOMAIN inflight :
          inflight[id].op \in MutatingOps =>
              /\ Len(inflight[id].sent) = 1
              /\ \A t \in Requests(inflight[id]) :
                    /\ t.method \in {"post", "set", "delete"}
                    /\ RetryBudget(t.request) = 0
    /\ delivered.op \in MutatingOps =>
          /\ delivered.attempts = 1
          /\ DOMAIN inflight = {}
          /\ ~delivered.response.ok =>
                delivered.outcome = [kind |-> "throw",
                                     error |-> delivered.response.error]

\* deleteUser whose request failed in the client
C3_Witness ==
    /\ delivered.op = "deleteUser"
    /\ ~delivered.response.ok
    /\ delivered.outcome.kind = "throw"
    /\ delivered.attempts = 1

----------------------------------------------------------------------------
\* C4: an operation that takes an accountId hands the client a request whose
\* account_id is that argument; the documented global operations hand it a
\* request with no account_id; createUser("1000", ...) posts path /users
\* under account 1000.
C4_AccountScoping ==
    \A id \in DOMAIN inflight : \A t \in Requests(inflight[id]) :
        /\ "accountId" \in DOMAIN inflight[id].args =>
              /\ "account_id" \in DOMAIN t.request
              /\ t.request.account_id = inflight[id].args.accountId
        /\ inflight[id].op \in DocumentedGlobalOps =>
              "account_id" \notin DOMAIN t.request
        /\ inflight[id].op = "createUser" =>
              t.method = "post" /\ t.request.path = "/users"

\* createUser("1000", ...) awaiting its response
C4_Witness ==
    \E id \in DOMAIN inflight : \E t \in Requests(inflight[id]) :
        /\ inflight[id].op = "createUser"
        /\ inflight[id].args.accountId = "1000"
        /\ t.request.account_id = "1000"
        /\ t.request.path = "/users"

----------------------------------------------------------------------------
\* C5: an account-scoped operation invoked with the empty string as accountId
\* never reaches the client.
C5_EmptyAccountIdStaysLocal ==
    \A id \in DOMAIN inflight :
        "accountId" \in DOMAIN inflight[id].args =>
            inflight[id].args.accountId # ""

----------------------------------------------------------------------------
\* C6: after a successful response a list operation returns exactly the
\* envelope field when it is present (empty included) and fails with
\* ContractViolation when it is absent.
C6_ListUnwrap ==
    (delivered.op \in ListOps /\ delivered.response.ok) =>
        LET f == EnvelopeField(delivered.op)
            body == delivered.response.body
        IN  IF f \in DOMAIN body
            THEN delivered.outcome = [kind |-> "return", value |-> body[f]]
            ELSE delivered.outcome = [kind |-> "throw",
                                      error |-> "ContractViolation"]

----------------------------------------------------------------------------
\* C7: getAccessKeys is the only operation whose request carries a ttl, the
\* caller's argument or 60000 when it is omitted; no other request,
\* createAccessKey's included, carries one.
C7_OnlyListingCached ==
    \A id \in DOMAIN inflight : \A t \in Requests(inflight[id]) :
        IF inflight[id].op = "getAccessKeys"
        THEN /\ "ttl" \in DOMAIN t.request
             /\ t.request.ttl = IF inflight[id].args.ttlArg = <<>> THEN 60000
                                ELSE inflight[id].args.ttlArg[1]
        ELSE "ttl" \notin DOMAIN t.request

\* getAccessKeys with the ttl argument omitted
C7_Witness ==
    \E id \in DOMAIN inflight : \E t \in Requests(inflight[id]) :
        /\ inflight[id].op = "getAccessKeys"
        /\ inflight[id].args.ttlArg = <<>>
        /\ t.request.ttl = 60000

----------------------------------------------------------------------------
\* C10: the environment of a request is the value of the shared field at the
\* instant its operation is invoked, and no later step (a setter of any
\* caller included) changes a request that is awaiting its response.
C10_EnvFixedAtInvocation ==
    [][ /\ \A id \in DOMAIN inflight' \ DOMAIN inflight :
              \A t \in Requests(inflight'[id]) :
                  t.request.environment = environment
        /\ \A id \in DOMAIN inflight' \cap DOMAIN inflight :
              inflight'[id].sent = inflight[id].sent ]_vars

\* a caller that selected integration has a request tagged production in
\* flight (another caller's setter ran in between), and a setter has since
\* switched the field back without touching the request
C10_Witness ==
    \E id \in DOMAIN inflight : \E t \in Requests(inflight[id]) :
        /\ inflight[id].intended = "integration"
        /\ inflight[id].selected = "setProductionEnv"
        /\ t.request.environment = "production"
        /\ environment = "integration"

=============================================================================
